---- MODULE Spec2Model ----
(***************************************************************************)
(* Cooperative wait primitives of shpegun60/coop:                          *)
(*   CoopPump  (src/cooppump.h)  - the pump slot and the waitDepth counter *)
(*   CoopDelay (src/coopdelay.h) - delay_ms, delay_cycles, wait_until      *)
(*   ReentryGuard (src/reentryguard.h) - per-call-site depth and Scope     *)
(* One logical thread of control: the program is a call stack.  The frame  *)
(* on top of the stack is the code that runs; a wait calls the pump        *)
(* callback by pushing a frame, the callback may call a wait again.  The   *)
(* millisecond tick and the cycle counter are hardware clocks driven by    *)
(* the same oscillator: they advance on their own between any two steps of *)
(* the program, CycPerTick cycles to the millisecond.                      *)
(***************************************************************************)
EXTENDS Integers, Sequences, FiniteSets, TLC

\* ---------------------------------------------------------------- bounds
\* Largest value of the millisecond tick.
MaxTick == 2
\* Largest duration / timeout handed to a wait.
MaxDur == 1
\* Cycles of the DWT counter per millisecond tick.
CycPerTick == 2
\* Largest number of wait operations in progress at once (nesting).
MaxDepth == 2
\* The per-wait counters of pump calls and predicate evaluations saturate here.
MaxCount == 2
\* Largest delay of the simulated-clock scenario (a fixed 10 ms delay).
SimMaxDur == 10
\* Largest number of Scope objects alive at once in the scope scenario.
MaxScopes == 3
\* How far below zero copies of Guard objects may bring waitDepth.
MaxLeak == 1

VARIABLES
    waitDepth,  \* CoopPump::Guard::waitDepth
    _pump,      \* CoopPump::_pump: the registered callback, or NoPump
    stack,      \* the call stack, bottom first
    tick,       \* Tick::now(), milliseconds
    since,      \* the tick at which the condition `ready` reads became true, or Never
    ret,        \* the wait operation that returned in the last step, or NoRet
    depth_,     \* ReentryGuard::depth_ of every guard
    scopes,     \* the ReentryGuard::Scope objects, oldest first; each tells
                \* whether it is alive
    reg         \* the argument of the most recent setPump / reset, NoPump at start

vars == <<waitDepth, _pump, stack, tick, since, ret, depth_, scopes, reg>>

\* ------------------------------------------------------------ vocabulary
NoPump == "none"
Callbacks == {"cbA"}
DelayOps == {"delay_ms", "delay_cycles"}
WaitOps == DelayOps \cup {"wait_until"}
Forms == {"ct", "rt"}
Never == -1

NoRet == [op |-> "none", form |-> "-", t0 |-> 0, dur |-> 0, res |-> FALSE,
          el |-> 0, np |-> 0, ne |-> 0, nt |-> 0, lvl |-> 0, d0 |-> 0, d1 |-> 0]

\* static_assert(DurationMs > 0) / (Cycles > 0) / (TimeoutMs > 0) in the
\* template forms; the runtime forms take any unsigned value.
Durations(form) == IF form = "ct" THEN 1..MaxDur ELSE 0..MaxDur

\* ------------------------------------------------------------- CoopPump
\* Guard() { ++waitDepth; }
GuardCtor(d) == d + 1
\* ~Guard() { --waitDepth; }
GuardDtor(d) == d - 1
\* static bool inWait() { return waitDepth > 0; }
inWait == waitDepth > 0

\* ------------------------------------------------------ clocks and timers
\* Dwt::now(): the cycle counter.
cyc == CycPerTick * tick
\* Every delay built on the cycle-counter timer.
ClockOfAllCycles(op) == cyc
\* The clock a wait's timer counts on: DwtITimer for delay_cycles,
\* TickITimer for the others.
ClockOf(op) == IF op = "delay_cycles" THEN cyc ELSE tick
\* The largest value that clock takes in the model.
ClockMax(op) == IF op = "delay_cycles" THEN CycPerTick * MaxTick ELSE MaxTick
\* timer.isExpired(): the duration has elapsed since construction.
isExpired(t0, dur, now) == now - t0 >= dur
\* A delay_cycles that hands the pump its own clock.
PumpNowOwnClock(op) == ClockOf(op)
\* The first argument of every pump call made by a wait: Tick::now().
PumpNow(op) == tick
\* The predicate `ready`, as the caller's lambda evaluates it.
cond == since # Never

\* ---------------------------------------------------------- ReentryGuard
\* The guards: one static ReentryGuard per guarded call site.
Guards == {"gA", "gB"}
\* The guarded functions and the guard each one owns.
Funcs == {"fA", "fB"}
GuardOf(fn) == IF fn = "fA" THEN "gA" ELSE "gB"
\* ++g_.depth_
ScopeCtorDepth(d) == d + 1
\* --g_.depth_
ScopeDtorDepth(d) == d - 1
\* A flag computed from the depth before the increment: g_.depth_++ > 1.
ReenteredPostInc(d) == d - 1 > 1
\* reentered_(++g_.depth_ > 1), d being the incremented depth.
Reentered(d) == d > 1
\* An is_reentered() that reads the guard's depth at the time of the call.
is_reenteredLive(s, d) == d[s.g] > 1
\* bool is_reentered() const { return reentered_; }; d is the depth_ of every
\* guard at the time of the call.
is_reentered(s, d) == s.reentered_
\* A guard macro whose early return is missing.
GuardCheckIgnored(r) == "body"
\* if (_scope_.is_reentered()) return;
GuardCheck(r) == IF r THEN "return" ELSE "body"

\* ---------------------------------------------------------- control flow
\* The pump-then-check variant: do { pump } while (...).
LoopEntryPumpFirst(op) == "pump"
\* The delays as do { pump } while (!timer.isExpired()).
LoopEntryDelayPumpFirst(op) == IF op = "wait_until" THEN "eval" ELSE "pump"
\* The loop condition comes first: while (...) { ... }, not do { ... } while.
LoopEntry(op) == IF op = "wait_until" THEN "eval" ELSE "check"
\* The loop condition with its negation dropped: while (timer.isExpired()).
DelayLoopInverted(expired) == IF expired THEN "pump" ELSE "exit"
\* while (!timer.isExpired()) { pump }        (delay_ms, delay_cycles)
DelayLoop(expired) == IF ~expired THEN "pump" ELSE "exit"
\* The loop body reordered: the pump call before the timeout test.
ReadyLoopPumpFirst(ready) == IF ~ready THEN "pump" ELSE "exit_true"
\* The loop condition with its negation dropped: while (ready()).
ReadyLoopInverted(ready) == IF ready THEN "tcheck" ELSE "exit_true"
\* while (!ready()) { ... }                   (wait_until)
ReadyLoop(ready) == IF ~ready THEN "tcheck" ELSE "exit_true"
\* The timeout test with its sense reversed.
TimeoutCheckInverted(expired) == IF expired THEN "pump" ELSE "exit_false"
\* A wait_until without its timeout return.
TimeoutCheckMissing(expired) == "pump"
\* if (t.isExpired()) return false;           (wait_until)
TimeoutCheck(expired) == IF expired THEN "exit_false" ELSE "pump"
\* A wait_until that goes from the pump call to the timeout test.
LoopHeadSkipsReady(op) == IF op = "wait_until" THEN "tcheck" ELSE "check"
\* After the pump call the loop condition is evaluated again.
LoopHead(op) == IF op = "wait_until" THEN "eval" ELSE "check"

Count(n, cap) == IF n < cap THEN n + 1 ELSE cap

Top == stack[Len(stack)]
NWaits == Cardinality({i \in 1..Len(stack) : stack[i].kind = "wait"})
Pop == SubSeq(stack, 1, Len(stack) - 1)
SetTop(f) == [stack EXCEPT ![Len(stack)] = f]

\* A wait in progress: its timer (t0, dur), where it is in its loop (pc), and
\* what it has done so far: np pump calls, ne evaluations of its loop
\* condition, nt evaluations of the predicate that reported true, and its
\* last event (last).  d0 is waitDepth before the call.
WaitFrame(op, form, dur) ==
    [kind |-> "wait", op |-> op, form |-> form, t0 |-> ClockOf(op),
     dur |-> dur, pc |-> LoopEntry(op), np |-> 0, ne |-> 0, nt |-> 0,
     last |-> "enter", now |-> 0, light |-> FALSE, at |-> 0, d0 |-> waitDepth,
     objs |-> 0]

\* A callback invocation _pump(now, light); at is the tick at the call and
\* d0 the waitDepth the callback finds.
CbFrame(cb, now, light) ==
    [kind |-> "cb", op |-> cb, form |-> "-", t0 |-> 0,
     dur |-> 0, pc |-> "body", np |-> 0, ne |-> 0, nt |-> 0,
     last |-> "-", now |-> now, light |-> light, at |-> tick, d0 |-> waitDepth,
     objs |-> 0]

RetOf(f, res) ==
    [op |-> f.op, form |-> f.form, t0 |-> f.t0, dur |-> f.dur, res |-> res,
     el |-> ClockOf(f.op) - f.t0, np |-> f.np, ne |-> f.ne, nt |-> f.nt,
     lvl |-> Len(stack), d0 |-> f.d0, d1 |-> waitDepth']

Init ==
    /\ waitDepth = 0
    /\ _pump = NoPump
    /\ stack = <<>>
    /\ tick = 0
    /\ since = Never
    /\ ret = NoRet
    /\ depth_ = [g \in Guards |-> 0]
    /\ scopes = <<>>
    /\ reg = NoPump

\* ------------------------------------------------------------ operations
\* TickITimer / DwtITimer timer; { CoopPump::Guard g; ...
Enter(op, form, dur, base) ==
    /\ stack' = Append(base, WaitFrame(op, form, dur))
    /\ waitDepth' = GuardCtor(waitDepth)
    /\ ret' = NoRet
    /\ UNCHANGED <<_pump, tick, since, depth_, scopes, reg>>

\* ... } the wait f returns res: ~Guard runs on every path out of the block,
\* the `return false` inside the loop included.
Return(f, res) ==
    /\ stack' = Pop
    /\ waitDepth' = GuardDtor(waitDepth)
    /\ ret' = RetOf(f, res)
    /\ UNCHANGED <<_pump, tick, since, depth_, scopes, reg>>

\* The wait goes on as f.
Continue(f) ==
    /\ stack' = SetTop(f)
    /\ ret' = NoRet
    /\ UNCHANGED <<waitDepth, _pump, tick, since, depth_, scopes, reg>>

\* A slot in which the first registration wins.
SlotKeepFirst(old, fn) == IF old = NoPump THEN fn ELSE old
\* _pump = std::move(fn): the slot after setPump(fn), whatever it held.
SlotAfter(old, fn) == fn

\* CoopPump::setPump(fn) called by the main program.
setPump(fn) ==
    /\ stack = <<>>
    /\ _pump' = SlotAfter(_pump, fn)
    /\ reg' = fn
    /\ ret' = NoRet
    /\ UNCHANGED <<waitDepth, stack, tick, since, depth_, scopes>>

\* CoopPump::reset() called by the main program.
reset ==
    /\ stack = <<>>
    /\ _pump' = NoPump
    /\ reg' = NoPump
    /\ ret' = NoRet
    /\ UNCHANGED <<waitDepth, stack, tick, since, depth_, scopes>>

\* The main program calls a wait operation.
CallWait(op, form, dur) ==
    /\ stack = <<>>
    /\ Enter(op, form, dur, stack)

\* delay_ms / delay_cycles: the loop condition while (!timer.isExpired()).
TimerCheck(cap) ==
    /\ stack # <<>>
    /\ Top.kind = "wait"
    /\ Top.pc = "check"
    /\ LET nxt == DelayLoop(isExpired(Top.t0, Top.dur, ClockOf(Top.op)))
           f   == [Top EXCEPT !.ne = Count(Top.ne, cap), !.last = "check", !.pc = nxt]
       IN  IF nxt = "exit" THEN Return(f, TRUE) ELSE Continue(f)

\* wait_until: the loop condition while (!ready()).
PredEval(cap) ==
    /\ stack # <<>>
    /\ Top.kind = "wait"
    /\ Top.pc = "eval"
    /\ LET nxt == ReadyLoop(cond)
           f   == [Top EXCEPT !.ne = Count(Top.ne, cap),
                              !.nt = IF cond THEN Top.nt + 1 ELSE Top.nt,
                              !.last = "check", !.pc = nxt]
       IN  IF nxt = "exit_true" THEN Return(f, TRUE) ELSE Continue(f)

\* wait_until: if (t.isExpired()) return false;
TimeoutTest ==
    /\ stack # <<>>
    /\ Top.kind = "wait"
    /\ Top.pc = "tcheck"
    /\ LET nxt == TimeoutCheck(isExpired(Top.t0, Top.dur, ClockOf(Top.op)))
           f   == [Top EXCEPT !.pc = nxt]
       IN  IF nxt = "exit_false" THEN Return(f, FALSE) ELSE Continue(f)

\* A pump that hands the callback light = true whatever it was given.
pumpAlwaysLight(base, now, light) ==
    IF _pump # NoPump THEN Append(base, CbFrame(_pump, now, TRUE)) ELSE base
\* A pump without the test of the slot, falling back on a default handler.
pumpDefault(base, now, light) ==
    Append(base, CbFrame(IF _pump # NoPump THEN _pump ELSE "cbA", now, light))
\* CoopPump::pump(now, light): if (_pump) _pump(now, light);
\* the stack after the call, base being the stack of the caller.
pump(base, now, light) ==
    IF _pump # NoPump THEN Append(base, CbFrame(_pump, now, light)) ELSE base

\* CoopPump::pump(Tick::now(), true) called by a wait; the wait goes on at its
\* loop condition.
PumpCall(cap) ==
    /\ stack # <<>>
    /\ Top.kind = "wait"
    /\ Top.pc = "pump"
    /\ LET f == [Top EXCEPT !.np = Count(Top.np, cap), !.last = "pump",
                            !.pc = LoopHead(Top.op)]
       IN  stack' = pump(SetTop(f), PumpNow(Top.op), TRUE)
    /\ ret' = NoRet
    /\ UNCHANGED <<waitDepth, _pump, tick, since, depth_, scopes, reg>>

\* A callback whose return unwinds the wait that pumped it as well.
CbReturnUnwinds ==
    /\ stack # <<>>
    /\ Top.kind = "cb"
    /\ stack' = SubSeq(stack, 1, Len(stack) - 2)
    /\ ret' = NoRet
    /\ UNCHANGED <<waitDepth, _pump, tick, since, depth_, scopes, reg>>

\* The callback returns to the pump call that invoked it; a callback that
\* crashed never does.
CbReturn ==
    /\ stack # <<>>
    /\ Top.kind = "cb"
    /\ Top.pc # "crashed"
    /\ stack' = Pop
    /\ ret' = NoRet
    /\ UNCHANGED <<waitDepth, _pump, tick, since, depth_, scopes, reg>>

\* The callback calls a wait operation (a nested wait).
CbCallWait(op, form, dur) ==
    /\ stack # <<>>
    /\ Top.kind = "cb"
    /\ Top.pc = "body"
    /\ Enter(op, form, dur, SetTop([Top EXCEPT !.pc = "done"]))

\* ----------------------------------------------------------- environment
\* The millisecond tick, and with it the cycle counter, advances.
TickAdvance ==
    /\ tick < MaxTick
    /\ tick' = tick + 1
    /\ ret' = NoRet
    /\ UNCHANGED <<waitDepth, _pump, stack, since, depth_, scopes, reg>>

\* The tick advances while a pump callback is running: the callback takes time.
PumpTakesTime ==
    /\ stack # <<>>
    /\ Top.kind = "cb"
    /\ TickAdvance

\* The condition `ready` reads changes (an interrupt, a peripheral).
CondFlip ==
    /\ since' = IF cond THEN Never ELSE tick
    /\ ret' = NoRet
    /\ UNCHANGED <<waitDepth, _pump, stack, tick, depth_, scopes, reg>>

\* ------------------------------------------------- Guards of the caller
\* A block of the main program that holds a CoopPump::Guard of its own and
\* pumps until its condition holds, as the header's example does:
\*     { CoopPump::Guard g; while (!condition) CoopPump::pump(now, true); }
\* objs is the number of Guard objects alive in the block.
BlockFrame ==
    [kind |-> "block", op |-> "Guard", form |-> "-", t0 |-> 0,
     dur |-> 0, pc |-> "cond", np |-> 0, ne |-> 0, nt |-> 0,
     last |-> "enter", now |-> 0, light |-> FALSE, at |-> tick, d0 |-> waitDepth,
     objs |-> 1]

\* Guard has no user-declared copy constructor: the implicit one copies
\* nothing and leaves waitDepth alone.
GuardCopy(d) == d

\* What waitDepth would be with every Guard object of the block destroyed.
DepthAfterBlock == waitDepth - Top.objs

\* CoopPump::Guard g;
MainGuardOpen ==
    /\ stack = <<>>
    /\ stack' = <<BlockFrame>>
    /\ waitDepth' = GuardCtor(waitDepth)
    /\ ret' = NoRet
    /\ UNCHANGED <<_pump, tick, since, depth_, scopes, reg>>

\* CoopPump::Guard h = g;  (as far as MaxLeak lets waitDepth sink)
BlockCopy ==
    /\ stack # <<>>
    /\ Top.kind = "block"
    /\ Top.pc = "cond"
    /\ DepthAfterBlock > -MaxLeak
    /\ stack' = SetTop([Top EXCEPT !.objs = Top.objs + 1])
    /\ waitDepth' = GuardCopy(waitDepth)
    /\ ret' = NoRet
    /\ UNCHANGED <<_pump, tick, since, depth_, scopes, reg>>

\* while (!condition)
BlockCond ==
    /\ stack # <<>>
    /\ Top.kind = "block"
    /\ Top.pc = "cond"
    /\ stack' = SetTop([Top EXCEPT !.pc = IF ~cond THEN "pump" ELSE "exit",
                                   !.last = "check"])
    /\ ret' = NoRet
    /\ UNCHANGED <<waitDepth, _pump, tick, since, depth_, scopes, reg>>

\* CoopPump::pump(now, true) in the body of the block's loop.
BlockPump ==
    /\ stack # <<>>
    /\ Top.kind = "block"
    /\ Top.pc = "pump"
    /\ stack' = pump(SetTop([Top EXCEPT !.pc = "cond", !.last = "pump"]), tick, TRUE)
    /\ ret' = NoRet
    /\ UNCHANGED <<waitDepth, _pump, tick, since, depth_, scopes, reg>>

\* The end of the block: ~Guard() of one of its Guard objects; the block is
\* left with the last.
BlockDtor ==
    /\ stack # <<>>
    /\ Top.kind = "block"
    /\ Top.pc = "exit"
    /\ waitDepth' = GuardDtor(waitDepth)
    /\ stack' = IF Top.objs = 1 THEN Pop ELSE SetTop([Top EXCEPT !.objs = Top.objs - 1])
    /\ ret' = NoRet
    /\ UNCHANGED <<_pump, tick, since, depth_, scopes, reg>>

\* What the main program does with Guards of its own.
GuardBlocks ==
    \/ MainGuardOpen
    \/ BlockCopy
    \/ BlockCond
    \/ BlockPump
    \/ BlockDtor

\* ------------------------------------------------------- specifications
\* The model stops calling waits that its clock bound would cut short.
Fits(op, dur) == ClockOf(op) + dur <= ClockMax(op)

\* What the main program and the callback may do around the waits.
Program ==
    \/ \E fn \in Callbacks \cup {NoPump} : setPump(fn)
    \/ reset
    \/ \E op \in WaitOps, form \in Forms : \E dur \in Durations(form) : Fits(op, dur) /\ CallWait(op, form, dur)
    \/ CbReturn

Environment ==
    \/ TickAdvance
    \/ CondFlip

\* Waits nest up to MaxDepth; the per-wait counters are not kept.
Next ==
    \/ Program
    \/ Environment
    \/ TimerCheck(0)
    \/ PredEval(0)
    \/ TimeoutTest
    \/ PumpCall(0)
    \/ \E op \in WaitOps, form \in Forms : \E dur \in Durations(form) : NWaits < MaxDepth /\ Fits(op, dur) /\ CbCallWait(op, form, dur)

Spec == Init /\ [][Next]_vars

\* As Spec, with the main program's own Guards.
NextGuards ==
    \/ Next
    \/ GuardBlocks

SpecGuards == Init /\ [][NextGuards]_vars

\* As Spec, with time passing only inside the pump callbacks: the steps of the
\* waits themselves take no time.
NextPumpTime ==
    \/ Program
    \/ PumpTakesTime
    \/ CondFlip
    \/ TimerCheck(0)
    \/ PredEval(0)
    \/ TimeoutTest
    \/ PumpCall(0)
    \/ \E op \in WaitOps, form \in Forms : \E dur \in Durations(form) : NWaits < MaxDepth /\ Fits(op, dur) /\ CbCallWait(op, form, dur)

SpecPumpTime == Init /\ [][NextPumpTime]_vars

\* No wait is called from a callback; each wait counts its pump calls and
\* predicate evaluations up to MaxCount.  The main program also holds Guards
\* of its own.
NextCount ==
    \/ Program
    \/ GuardBlocks
    \/ Environment
    \/ TimerCheck(MaxCount)
    \/ PredEval(MaxCount)
    \/ TimeoutTest
    \/ PumpCall(MaxCount)

SpecCount == Init /\ [][NextCount]_vars

\* The simulated clock: the registered pump advances the tick by one
\* millisecond per call, and nothing else does.
SimPumpBody ==
    /\ stack # <<>>
    /\ Top.kind = "cb"
    /\ Top.pc = "body"
    /\ tick' = tick + 1
    /\ stack' = SetTop([Top EXCEPT !.pc = "done"])
    /\ ret' = NoRet
    /\ UNCHANGED <<waitDepth, _pump, since, depth_, scopes, reg>>

\* A pump is registered, then fixed delays of 1..SimMaxDur ms run on the
\* simulated clock.
NextSim ==
    \/ \E fn \in Callbacks : setPump(fn)
    \/ \E form \in Forms, dur \in 1..SimMaxDur : _pump # NoPump /\ tick + dur <= SimMaxDur + 2 /\ CallWait("delay_ms", form, dur)
    \/ TimerCheck(SimMaxDur + 1)
    \/ PumpCall(SimMaxDur + 1)
    \/ SimPumpBody
    \/ stack # <<>> /\ Top.pc = "done" /\ CbReturn

SpecSim == Init /\ [][NextSim]_vars

\* The predicate never evaluates true: the condition is never set.
NextLive ==
    \/ Program
    \/ TickAdvance
    \/ TimerCheck(0)
    \/ PredEval(0)
    \/ TimeoutTest
    \/ PumpCall(0)
    \/ \E op \in WaitOps, form \in Forms : \E dur \in Durations(form) : NWaits < MaxDepth /\ Fits(op, dur) /\ CbCallWait(op, form, dur)

\* The code that is running takes its next step: the wait's loop goes on and
\* the callback, whatever it did, returns.
Run ==
    \/ TimerCheck(0)
    \/ PredEval(0)
    \/ TimeoutTest
    \/ PumpCall(0)
    \/ CbReturn

\* The single thread keeps running and the clock keeps advancing.
SpecLive == Init /\ [][NextLive]_vars /\ WF_vars(Run) /\ WF_vars(TickAdvance)

\* ------------------------------------------------------- scopes on guards
\* The Scope objects of guard g that are alive.
AliveOn(g) == Cardinality({i \in 1..Len(scopes) : scopes[i].g = g /\ scopes[i].alive})
AnyAlive == \E i \in 1..Len(scopes) : scopes[i].alive
\* The list without its destroyed Scopes.
RECURSIVE AliveOnly(_)
AliveOnly(q) ==
    IF q = <<>> THEN <<>>
    ELSE IF Head(q).alive THEN <<Head(q)>> \o AliveOnly(Tail(q))
    ELSE AliveOnly(Tail(q))

\* explicit Scope(ReentryGuard& guard) : g_(guard), reentered_(++g_.depth_ > 1)
\* on guard g, added to the list q.  Kept with the Scope: d0 and n0, the
\* guard's depth and its number of alive Scopes before the construction; r0,
\* what is_reentered() returns right after it; own, the stack level of the
\* function invocation the Scope is local to (0: the main program).
ScopeCtor(g, own, q) ==
    LET d  == ScopeCtorDepth(depth_[g])
        dd == [depth_ EXCEPT ![g] = d]
        s  == [g |-> g, reentered_ |-> Reentered(d), alive |-> TRUE,
               d0 |-> depth_[g], n0 |-> AliveOn(g), own |-> own, r0 |-> FALSE]
    IN  /\ depth_' = dd
        /\ scopes' = Append(q, [s EXCEPT !.r0 = is_reentered(s, dd)])

\* A destructor that decrements the depth of every guard.
ScopeDtorWide(i, keep) ==
    /\ depth_' = [g \in Guards |-> ScopeDtorDepth(depth_[g])]
    /\ scopes' = IF keep THEN [scopes EXCEPT ![i].alive = FALSE]
                 ELSE AliveOnly([scopes EXCEPT ![i].alive = FALSE])

\* ~Scope() { --g_.depth_; } of the i-th Scope of the list; the Scope stays
\* listed, marked destroyed, when keep is TRUE.
ScopeDtor(i, keep) ==
    /\ depth_' = [depth_ EXCEPT ![scopes[i].g] = ScopeDtorDepth(depth_[scopes[i].g])]
    /\ scopes' = IF keep THEN [scopes EXCEPT ![i].alive = FALSE]
                 ELSE AliveOnly([scopes EXCEPT ![i].alive = FALSE])

\* The main program constructs a Scope on guard g.  The list is the history
\* of the guards since no Scope was alive: it starts afresh from there.
ScopeOpen(g) ==
    /\ stack = <<>>
    /\ LET q == IF AnyAlive THEN scopes ELSE <<>>
       IN  Len(q) < MaxScopes /\ ScopeCtor(g, 0, q)
    /\ ret' = NoRet
    /\ UNCHANGED <<waitDepth, _pump, stack, tick, since, reg>>

\* The main program destroys one of its Scopes; they are objects of any
\* storage duration, so in any order.
ScopeClose(i) ==
    /\ stack = <<>>
    /\ scopes[i].alive
    /\ ScopeDtor(i, TRUE)
    /\ ret' = NoRet
    /\ UNCHANGED <<waitDepth, _pump, stack, tick, since, reg>>

\* Scopes are constructed and destroyed on the guards, nothing else happens.
NextScopes ==
    \/ \E g \in Guards : ScopeOpen(g)
    \/ \E i \in 1..Len(scopes) : ScopeClose(i)

SpecScopes == Init /\ [][NextScopes]_vars

\* ------------------------------------------------------ guarded functions
\* An invocation of the guarded function fn:
\*     void fn() { COOP_REENTRY_GUARD(); CoopDelay::delay_ms(d); }
\* pc is "guard" once the Scope is constructed, "body" once the guard let the
\* invocation through, "after" once the body has called its delay.
FnFrame(fn) ==
    [kind |-> "fn", op |-> fn, form |-> GuardOf(fn), t0 |-> 0,
     dur |-> 0, pc |-> "guard", np |-> 0, ne |-> 0, nt |-> 0,
     last |-> "-", now |-> 0, light |-> FALSE, at |-> tick, d0 |-> depth_[GuardOf(fn)],
     objs |-> 0]

\* The Scope local to the invocation on top of the stack.
OwnScope == CHOOSE i \in 1..Len(scopes) : scopes[i].alive /\ scopes[i].own = Len(stack)

\* static ReentryGuard _rg_; ReentryGuard::Scope _scope_{_rg_};
FnEnter(fn, base) ==
    /\ stack' = Append(base, FnFrame(fn))
    /\ ScopeCtor(GuardOf(fn), Len(base) + 1, scopes)
    /\ ret' = NoRet
    /\ UNCHANGED <<waitDepth, _pump, tick, since, reg>>

\* What the invocation f left behind: early tells the early return, d0 and d1
\* the depth of its guard before its Scope's construction and after its
\* destruction.
FnRetOf(f, early) ==
    [NoRet EXCEPT !.op = f.op, !.form = f.form, !.res = early,
                  !.lvl = Len(stack), !.d0 = scopes[OwnScope].d0, !.d1 = depth_'[f.form]]

\* An invocation whose early return skips the destructor.
FnLeaveLeak(f, early) ==
    /\ stack' = Pop
    /\ IF early THEN depth_' = depth_ /\ scopes' = AliveOnly([scopes EXCEPT ![OwnScope].alive = FALSE])
       ELSE ScopeDtor(OwnScope, FALSE)
    /\ ret' = FnRetOf(f, early)
    /\ UNCHANGED <<waitDepth, _pump, tick, since, reg>>

\* The invocation f returns: ~Scope runs on every path out of the function.
FnLeave(f, early) ==
    /\ stack' = Pop
    /\ ScopeDtor(OwnScope, FALSE)
    /\ ret' = FnRetOf(f, early)
    /\ UNCHANGED <<waitDepth, _pump, tick, since, reg>>

\* The main program calls the guarded function fn.
MainCallFn(fn) ==
    /\ stack = <<>>
    /\ FnEnter(fn, stack)

\* The pump callback calls the guarded function fn.
CbCallFn(fn) ==
    /\ stack # <<>>
    /\ Top.kind = "cb"
    /\ Top.pc = "body"
    /\ FnEnter(fn, SetTop([Top EXCEPT !.pc = "done"]))

\* if (_scope_.is_reentered()) return;
FnGuard ==
    /\ stack # <<>>
    /\ Top.kind = "fn"
    /\ Top.pc = "guard"
    /\ IF GuardCheck(is_reentered(scopes[OwnScope], depth_)) = "return"
       THEN FnLeave(Top, TRUE)
       ELSE /\ stack' = SetTop([Top EXCEPT !.pc = "body"])
            /\ ret' = NoRet
            /\ UNCHANGED <<waitDepth, _pump, tick, since, depth_, scopes, reg>>

\* The normal body: the function runs a delay of dur ms.
FnBody(dur) ==
    /\ stack # <<>>
    /\ Top.kind = "fn"
    /\ Top.pc = "body"
    /\ Enter("delay_ms", "rt", dur, SetTop([Top EXCEPT !.pc = "after"]))

\* The end of the function.
FnReturn ==
    /\ stack # <<>>
    /\ Top.kind = "fn"
    /\ Top.pc = "after"
    /\ FnLeave(Top, FALSE)

\* Guarded functions whose bodies delay, called by the main program and by
\* the pump callback.  Nothing here bounds the depth of the calls.
NextReentry ==
    \/ \E fn \in Callbacks \cup {NoPump} : setPump(fn)
    \/ \E fn \in Funcs : MainCallFn(fn)
    \/ \E fn \in Funcs : CbCallFn(fn)
    \/ FnGuard
    \/ \E dur \in Durations("rt") : Fits("delay_ms", dur) /\ FnBody(dur)
    \/ FnReturn
    \/ TimerCheck(0)
    \/ PumpCall(0)
    \/ CbReturn
    \/ TickAdvance

SpecReentry == Init /\ [][NextReentry]_vars

\* ------------------------------------------------------------ the pump slot
\* What can be registered: a callback, or nothing (nullptr, an empty
\* std::function).
Slots == {"cbA", "cbB", NoPump}

\* The main program's call CoopPump::pump(now, light), about to be made.
CallFrame(now, light) ==
    [kind |-> "call", op |-> "pump", form |-> "-", t0 |-> 0,
     dur |-> 0, pc |-> "pump", np |-> 0, ne |-> 0, nt |-> 0,
     last |-> "-", now |-> now, light |-> light, at |-> tick, d0 |-> waitDepth,
     objs |-> 0]

\* The main program calls CoopPump::pump(now, light), outside any wait.
MainPump(now, light) ==
    /\ stack = <<>>
    /\ stack' = <<CallFrame(now, light)>>
    /\ ret' = NoRet
    /\ UNCHANGED <<waitDepth, _pump, tick, since, depth_, scopes, reg>>

\* The body of that call: if (_pump) _pump(now, light);
PumpDirect ==
    /\ stack # <<>>
    /\ Top.kind = "call"
    /\ Top.pc = "pump"
    /\ stack' = pump(SetTop([Top EXCEPT !.pc = "done"]), Top.now, Top.light)
    /\ ret' = NoRet
    /\ UNCHANGED <<waitDepth, _pump, tick, since, depth_, scopes, reg>>

\* CoopPump::pump returns to the main program.
CallReturn ==
    /\ stack # <<>>
    /\ Top.kind = "call"
    /\ Top.pc = "done"
    /\ stack' = Pop
    /\ ret' = NoRet
    /\ UNCHANGED <<waitDepth, _pump, tick, since, depth_, scopes, reg>>

\* The assignment to _pump made while _pump(now, light) is executing
\* destroys the std::function target that is running.  What the rest of the
\* callback does is undefined once it touches its own state: it goes on and
\* returns ("done"), it goes on with garbage for its own state, or with
\* the state of the callback registered in its place, and returns
\* ("garbled"), or the program dies in it ("crashed").
DanglingOutcomes == {"done", "garbled", "crashed"}

\* The running callback calls CoopPump::setPump(fn).
CbSetPump(fn) ==
    /\ stack # <<>>
    /\ Top.kind = "cb"
    /\ Top.pc = "body"
    /\ _pump' = SlotAfter(_pump, fn)
    /\ reg' = fn
    /\ \E out \in DanglingOutcomes : stack' = SetTop([Top EXCEPT !.pc = out])
    /\ ret' = NoRet
    /\ UNCHANGED <<waitDepth, tick, since, depth_, scopes>>

\* The running callback calls CoopPump::reset().
CbReset ==
    /\ stack # <<>>
    /\ Top.kind = "cb"
    /\ Top.pc = "body"
    /\ _pump' = NoPump
    /\ reg' = NoPump
    /\ \E out \in DanglingOutcomes : stack' = SetTop([Top EXCEPT !.pc = out])
    /\ ret' = NoRet
    /\ UNCHANGED <<waitDepth, tick, since, depth_, scopes>>

\* Registrations by the main program and by the callback, pump calls by the
\* main program and by a delay.
NextSlot ==
    \/ \E fn \in Slots : setPump(fn)
    \/ reset
    \/ \E now \in 0..MaxTick, light \in BOOLEAN : MainPump(now, light)
    \/ PumpDirect
    \/ CallReturn
    \/ \E fn \in Slots : CbSetPump(fn)
    \/ CbReset
    \/ CbReturn
    \/ \E dur \in Durations("rt") : Fits("delay_ms", dur) /\ CallWait("delay_ms", "rt", dur)
    \/ TimerCheck(0)
    \/ PumpCall(0)
    \/ TickAdvance

SpecSlot == Init /\ [][NextSlot]_vars

\* ------------------------------------------------- the callback's manners
\* The callback calls CoopPump::Guard::inWait() and keeps the answer.
CbInWait ==
    /\ stack # <<>>
    /\ Top.kind = "cb"
    /\ Top.pc = "body"
    /\ stack' = SetTop([Top EXCEPT !.pc = IF inWait THEN "busy" ELSE "idle"])
    /\ ret' = NoRet
    /\ UNCHANGED <<waitDepth, _pump, tick, since, depth_, scopes, reg>>

\* if (!CoopPump::Guard::inWait()) { <a wait operation> }
CbWaitIfIdle(op, form, dur) ==
    /\ stack # <<>>
    /\ Top.kind = "cb"
    /\ Top.pc = "idle"
    /\ Enter(op, form, dur, SetTop([Top EXCEPT !.pc = "done"]))

\* The callback starts a wait only after inWait() answered false; it is
\* invoked by the waits, by the main program's own pump calls and by the
\* main program's Guard blocks.
NextPolite ==
    \/ \E fn \in Callbacks : setPump(fn)
    \/ GuardBlocks
    \/ \E light \in BOOLEAN : MainPump(tick, light)
    \/ PumpDirect
    \/ CallReturn
    \/ \E op \in WaitOps, form \in Forms : \E dur \in Durations(form) : Fits(op, dur) /\ CallWait(op, form, dur)
    \/ CbInWait
    \/ \E op \in WaitOps, form \in Forms : \E dur \in Durations(form) : Fits(op, dur) /\ CbWaitIfIdle(op, form, dur)
    \/ CbReturn
    \/ Environment
    \/ TimerCheck(0)
    \/ PredEval(0)
    \/ TimeoutTest
    \/ PumpCall(0)

SpecPolite == Init /\ [][NextPolite]_vars

\* The registration changes under the waits: the callback a wait invokes may
\* replace or clear it.  The single thread keeps running and the clock keeps
\* advancing.
NextSlotLive ==
    \/ \E fn \in Slots : setPump(fn)
    \/ \E op \in WaitOps, form \in Forms : \E dur \in Durations(form) : Fits(op, dur) /\ CallWait(op, form, dur)
    \/ \E fn \in Slots : CbSetPump(fn)
    \/ CbReset
    \/ CbReturn
    \/ Environment
    \/ TimerCheck(0)
    \/ PredEval(0)
    \/ TimeoutTest
    \/ PumpCall(0)

SpecSlotLive == Init /\ [][NextSlotLive]_vars /\ WF_vars(Run) /\ WF_vars(TickAdvance)

\* The three pieces of state side by side: guarded functions whose bodies
\* delay, every wait operation called by the main program, pump calls made
\* by the waits and by the main program, and a callback that asks inWait()
\* and calls a guarded function.
NextAll ==
    \/ \E fn \in Callbacks \cup {NoPump} : setPump(fn)
    \/ \E fn \in Funcs : MainCallFn(fn)
    \/ \E fn \in Funcs : CbCallFn(fn)
    \/ FnGuard
    \/ \E dur \in Durations("rt") : Fits("delay_ms", dur) /\ FnBody(dur)
    \/ FnReturn
    \/ \E op \in WaitOps, form \in Forms : \E dur \in Durations(form) : Fits(op, dur) /\ CallWait(op, form, dur)
    \/ \E light \in BOOLEAN : MainPump(tick, light)
    \/ PumpDirect
    \/ CallReturn
    \/ CbInWait
    \/ CbReturn
    \/ TickAdvance
    \/ TimerCheck(0)
    \/ PredEval(0)
    \/ TimeoutTest
    \/ PumpCall(0)

SpecAll == Init /\ [][NextAll]_vars

\* ================================================================ claims
\* The callback invocations made by a wait: the frame below is that wait.
PumpedCbs == {i \in 2..Len(stack) : stack[i].kind = "cb" /\ stack[i-1].kind = "wait"}
\* The waits in progress.
Waits == {i \in 1..Len(stack) : stack[i].kind = "wait"}
Returned == ret.op \in WaitOps

\* The main program's blocks that hold a Guard of their own.
Blocks == {i \in 1..Len(stack) : stack[i].kind = "block"}

\* C1: for waits started while no Guard is alive, inWait() is true whenever a
\* pump callback invoked by one of them is running and whenever one of them
\* is about to evaluate its predicate, at any nesting depth, and it is false
\* once the outermost wait has returned.
C1_InWaitThroughout ==
    Blocks = {} =>
        /\ \A i \in PumpedCbs : stack[i].d0 > 0 /\ inWait
        /\ \A i \in Waits : stack[i].pc = "eval" => inWait
        /\ Waits = {} => ~inWait
        /\ (Returned /\ ret.lvl = 1) => ~inWait

\* C2: waitDepth is never negative and equals the number of wait scopes in
\* progress, the wait operations and the caller's own Guard blocks; every
\* wait that returns, wait_until's timeout return included, leaves waitDepth
\* at the value it had before the call.
C2_DepthCountsWaits ==
    /\ waitDepth >= 0
    /\ waitDepth = NWaits + Cardinality(Blocks)
    /\ \A i \in Waits : stack[i].d0 = Cardinality({j \in Waits \cup Blocks : j < i})
    /\ Returned => ret.d1 = ret.d0

\* C3: a fixed-duration delay of D > 0 (delay_ms or delay_cycles, either
\* form) returns only when at least D units have elapsed on its clock since
\* its timer was constructed, that is, never while the timer is unexpired.
C3_DelayLastsD ==
    (Returned /\ ret.op \in DelayOps /\ ret.dur > 0) =>
        /\ ret.el >= ret.dur
        /\ isExpired(ret.t0, ret.dur, ClockOf(ret.op))
        /\ ret.res = TRUE

\* C3 witness: a compile-time delay_cycles of one cycle or more has returned
\* from inside a pump callback of an outer delay_ms.
C3_Witness ==
    /\ Returned
    /\ ret.op = "delay_cycles"
    /\ ret.form = "ct"
    /\ ret.dur >= 1
    /\ ret.el >= ret.dur
    /\ ret.lvl = 3
    /\ stack[1].op = "delay_ms"

\* The wait_until calls in progress.
WaitUntils == {i \in Waits : stack[i].op = "wait_until"}

\* C4: with a predicate that never evaluates true, a clock that keeps
\* advancing and callbacks that return, no wait_until stays in progress for
\* ever: each one returns, it returns false, and it does so only with its
\* timer expired.
C4_TimeoutTerminates ==
    /\ [](Returned /\ ret.op = "wait_until" =>
            ret.res = FALSE /\ isExpired(ret.t0, ret.dur, ClockOf(ret.op)))
    /\ []<>(WaitUntils = {})

\* C4 witness: a wait_until with a timeout of at least one tick has returned
\* false after pumping.
C4_Witness ==
    /\ Returned
    /\ ret.op = "wait_until"
    /\ ret.res = FALSE
    /\ ret.dur >= 1
    /\ ret.el >= ret.dur
    /\ ~cond

\* C5 as claimed: a wait_until whose predicate became true within T of the
\* entry (and has been true since) returns true, and no later than T after
\* the entry.
C5_AsClaimed ==
    (Returned /\ ret.op = "wait_until" /\ ret.dur > 0 /\ cond /\ since < ret.t0 + ret.dur) =>
        /\ ret.res = TRUE
        /\ ret.el <= ret.dur

\* C5 as amended: wait_until returns true at the first evaluation of the
\* predicate that reports true, whenever that evaluation is made: a
\* wait_until in progress has seen no true evaluation, one that returned true
\* saw exactly one, its last, and one that returned false saw none.
C5_ReturnsAtFirstTrue ==
    /\ \A i \in WaitUntils : stack[i].nt = 0
    /\ (Returned /\ ret.op = "wait_until") =>
          /\ ret.res = (ret.nt = 1)
          /\ ret.nt \in {0, 1}
          /\ ret.res => cond

\* C5 witness: a nested wait_until returned true more than T after its entry,
\* its predicate having become true within T.
C5_Witness ==
    /\ Returned
    /\ ret.op = "wait_until"
    /\ ret.res = TRUE
    /\ ret.nt = 1
    /\ ret.dur >= 1
    /\ since < ret.t0 + ret.dur
    /\ ret.el > ret.dur
    /\ ret.lvl = 3

\* C6 as claimed: if the timer expires before the predicate becomes true,
\* wait_until returns false: a call whose predicate became true only after
\* the expiry does not return true.
C6_AsClaimed ==
    (Returned /\ ret.op = "wait_until" /\ ret.dur > 0 /\ cond /\ since > ret.t0 + ret.dur) =>
        ret.res = FALSE

\* C6 as amended: the timer is consulted only after an evaluation that
\* reported false, and wait_until returns false only then and only with the
\* timer expired; an evaluation that reports true returns true whether or not
\* the timer has expired in the meantime.
C6_TimeoutOnlyAfterFalse ==
    /\ \A i \in WaitUntils :
          stack[i].pc = "tcheck" => stack[i].last = "check" /\ stack[i].nt = 0
    /\ (Returned /\ ret.op = "wait_until" /\ ret.res = FALSE) =>
          isExpired(ret.t0, ret.dur, ClockOf(ret.op)) /\ ret.nt = 0
    /\ (Returned /\ ret.op = "wait_until" /\ ret.res = TRUE) =>
          ret.nt > 0 /\ cond

\* C6 witness: the predicate became true only after the timer had expired,
\* during a pump call, and the wait_until returned true.
C6_Witness ==
    /\ Returned
    /\ ret.op = "wait_until"
    /\ ret.res = TRUE
    /\ ret.dur >= 1
    /\ since > ret.t0 + ret.dur
    /\ ret.el > ret.dur

\* C7: every callback invoked by a wait gets light = TRUE and the tick at the
\* call as now; in every wait a check of the loop condition is preceded by
\* the entry or by a pump call, a pump call by a check, and the number of
\* pump calls is the number of checks that did not end the wait.
C7_PumpAndCheckAlternate ==
    /\ \A i \in PumpedCbs : stack[i].light = TRUE /\ stack[i].now = stack[i].at
    /\ \A i \in Waits :
          LET f == stack[i]
          IN  /\ f.pc \in {"check", "eval"} =>
                    f.last \in {"enter", "pump"} /\ (f.ne < MaxCount => f.np = f.ne)
              /\ f.pc \in {"tcheck", "pump"} =>
                    f.last = "check" /\ (f.ne < MaxCount => f.np = f.ne - 1)
    /\ (Returned /\ ret.ne < MaxCount) => ret.np = ret.ne - 1

\* C7 witness: a delay_cycles is in its second pump call, made with the
\* millisecond tick, which differs from the cycle counter.
C7_Witness ==
    /\ Len(stack) = 2
    /\ stack[1].op = "delay_cycles"
    /\ stack[1].np = 2
    /\ stack[1].last = "pump"
    /\ Top.kind = "cb"
    /\ Top.light = TRUE
    /\ Top.now = tick
    /\ Top.now # cyc

\* C8: on the simulated clock a fixed delay of D ms, for every D in
\* 1..SimMaxDur, makes exactly D pump calls, each of which invokes the
\* registered pump, and returns at the check after the D-th, D ms after entry.
C8_ExactlyDPumps ==
    /\ \A i \in Waits : stack[i].np <= stack[i].dur
    /\ \A i \in PumpedCbs : stack[i-1].np = (stack[i].at - stack[i-1].t0) + 1
    /\ (Returned /\ ret.op = "delay_ms") =>
          /\ ret.np = ret.dur
          /\ ret.el = ret.dur

\* C8 witness: the compile-time 10 ms delay has returned after 10 pump calls.
C8_Witness ==
    /\ Returned
    /\ ret.op = "delay_ms"
    /\ ret.form = "ct"
    /\ ret.dur = 10
    /\ ret.np = 10
    /\ tick = ret.t0 + 10

\* A wait_until is about to evaluate its predicate for the first time.
FirstEval ==
    /\ stack # <<>>
    /\ Top.kind = "wait"
    /\ Top.op = "wait_until"
    /\ Top.pc = "eval"
    /\ Top.ne = 0

\* C9: when the predicate is true at the first evaluation, the step that
\* evaluates it returns true with no pump call made, whatever the timeout and
\* in both the compile-time and the runtime form.
C9_ImmediateTrueNoPump ==
    [][(FirstEval /\ cond /\ stack' # stack) =>
          /\ stack' = Pop
          /\ ret'.op = "wait_until"
          /\ ret'.form = Top.form
          /\ ret'.res = TRUE
          /\ ret'.ne = 1
          /\ ret'.np = 0]_vars

\* C9 witness: a compile-time wait_until returned true from its first
\* evaluation, with a pump registered and no call made to it.
C9_Witness ==
    /\ Returned
    /\ ret.op = "wait_until"
    /\ ret.form = "ct"
    /\ ret.res = TRUE
    /\ ret.ne = 1
    /\ ret.np = 0
    /\ _pump # NoPump

\* C10: the runtime wait_until with timeoutMs = 0 returns after exactly one
\* evaluation of the predicate and no pump call, true if that evaluation
\* reported true and false otherwise, with waitDepth as before the call.
C10_ZeroTimeoutImmediate ==
    (Returned /\ ret.op = "wait_until" /\ ret.form = "rt" /\ ret.dur = 0) =>
        /\ ret.ne = 1
        /\ ret.np = 0
        /\ ret.res = (ret.nt = 1)
        /\ ret.d1 = ret.d0
        /\ waitDepth = ret.d0

\* C10 witness: wait_until(ready, 0) returned false at once, with a pump
\* registered and not called; its timer was expired with no time elapsed.
C10_Witness ==
    /\ Returned
    /\ ret.op = "wait_until"
    /\ ret.form = "rt"
    /\ ret.dur = 0
    /\ ret.res = FALSE
    /\ ret.el = 0
    /\ ret.ne = 1
    /\ ret.np = 0
    /\ _pump # NoPump

\* C11: on every guard, a Scope constructed while no other Scope of the guard
\* was alive reported is_reentered() = FALSE, a Scope constructed while an
\* earlier one was still alive reported TRUE, and a guard with no Scope alive
\* has depth 0, so that the next Scope reports FALSE again.
C11_ReenteredIffNested ==
    /\ \A i \in 1..Len(scopes) : scopes[i].r0 = (scopes[i].n0 > 0)
    /\ \A g \in Guards : AliveOn(g) = 0 => depth_[g] = 0

\* C11 witness: the outer Scope reported FALSE and is alive, the inner one
\* reported TRUE and has been destroyed, and a third Scope constructed on the
\* same guard after that reported TRUE.
C11_Witness ==
    /\ Len(scopes) = 3
    /\ \A i \in 1..3 : scopes[i].g = "gA"
    /\ scopes[1].alive /\ ~scopes[1].r0
    /\ ~scopes[2].alive /\ scopes[2].r0
    /\ scopes[3].alive /\ scopes[3].r0 /\ scopes[3].n0 = 1
    /\ depth_["gA"] = 2

\* C14: what is_reentered() returns for a Scope that is alive is what it
\* returned right after the Scope's construction, whatever Scopes have been
\* constructed or destroyed on the same guard since.
C14_ReenteredImmutable ==
    \A i \in 1..Len(scopes) :
        scopes[i].alive => is_reentered(scopes[i], depth_) = scopes[i].r0

\* C14 witness: a Scope that reported TRUE when its guard's depth was 2 is
\* alive after the earlier Scope was destroyed, with the depth now 1.
C14_Witness ==
    /\ Len(scopes) = 2
    /\ ~scopes[1].alive /\ scopes[1].g = "gB" /\ ~scopes[1].r0
    /\ scopes[2].alive /\ scopes[2].g = "gB" /\ scopes[2].r0
    /\ is_reentered(scopes[2], depth_)
    /\ depth_["gB"] = 1

\* The invocations of guarded functions in progress.
FnFrames == {i \in 1..Len(stack) : stack[i].kind = "fn"}
FnReturned == ret.op \in Funcs

\* C12: the depth of every guard is the number of alive Scopes bound to it,
\* so never negative, and an invocation of a guarded function that returns,
\* by the early return of a reentered invocation or at its end, leaves its
\* guard's depth at the value it had before the Scope was constructed.
C12_DepthCountsScopes ==
    /\ \A g \in Guards : depth_[g] = AliveOn(g) /\ depth_[g] >= 0
    /\ \A i \in FnFrames : depth_[stack[i].form] > stack[i].d0
    /\ FnReturned => ret.d1 = ret.d0 /\ depth_[ret.form] = ret.d0

\* C12 witness: a reentered invocation has taken the early return, and its
\* guard's depth is back to 1, the Scope of the outer invocation.
C12_Witness ==
    /\ FnReturned
    /\ ret.res = TRUE
    /\ ret.d0 = 1
    /\ depth_[ret.form] = 1
    /\ ret.lvl = 4

\* The invocations of fn whose normal body is active.
BodyActive(fn) ==
    {i \in FnFrames : stack[i].op = fn /\ stack[i].pc \in {"body", "after"}}

\* C13: a guarded function never has its normal body active more than once
\* at a time, also when the body's delay pumps a callback that calls the
\* function again; the depth of its guard never exceeds 2 and the calls nest
\* no deeper than three frames (function, delay, callback) per guarded
\* function plus the reentered invocation that returns.
C13_BodyNotReentered ==
    /\ \A fn \in Funcs : Cardinality(BodyActive(fn)) <= 1
    /\ \A g \in Guards : depth_[g] <= 2
    /\ Len(stack) <= 3 * Cardinality(Funcs) + 1
    /\ \A i \in FnFrames :
          stack[i].pc \in {"body", "after"} => stack[i].d0 = 0

\* C13 witness: fA's body is in its delay, the delay's pump callback has
\* called fA again, and that invocation stands at its guard, reentered.
C13_Witness ==
    /\ Len(stack) = 4
    /\ stack[1].kind = "fn" /\ stack[1].op = "fA" /\ stack[1].pc = "after"
    /\ stack[2].kind = "wait" /\ stack[2].op = "delay_ms"
    /\ stack[3].kind = "cb"
    /\ stack[4].kind = "fn" /\ stack[4].op = "fA" /\ stack[4].pc = "guard"
    /\ is_reentered(scopes[OwnScope], depth_)
    /\ depth_["gA"] = 2

\* A call of CoopPump::pump is about to be made, by the main program or by a
\* wait; PumpArgs are its arguments.
AtPump == stack # <<>> /\ Top.kind \in {"call", "wait"} /\ Top.pc = "pump"
PumpArgs ==
    IF Top.kind = "call" THEN [now |-> Top.now, light |-> Top.light]
    ELSE [now |-> tick, light |-> TRUE]

\* C15: a call pump(now, light) invokes the callback of the most recent
\* registration, once and with the arguments (now, light) of the call, and a
\* callback is invoked by nothing but such a call; when the most recent
\* registration was reset(), an empty callback or none, the call invokes
\* nothing and changes neither the slot nor any counter.
C15_PumpInvokesLatest ==
    [][/\ (AtPump /\ stack' # stack) =>
            /\ Len(stack') = Len(stack) + (IF reg # NoPump THEN 1 ELSE 0)
            /\ stack'[Len(stack)].pc # "pump"
            /\ reg # NoPump =>
                  /\ stack'[Len(stack')].kind = "cb"
                  /\ stack'[Len(stack')].op = reg
                  /\ stack'[Len(stack')].now = PumpArgs.now
                  /\ stack'[Len(stack')].light = PumpArgs.light
            /\ UNCHANGED <<_pump, reg, waitDepth, depth_, scopes, tick, since>>
       /\ (Len(stack') > Len(stack) /\ stack'[Len(stack')].kind = "cb") => AtPump
      ]_vars

\* C15 witness: cbB, the most recent registration, is being invoked by the
\* main program's pump(now, false), with a now that is not the tick.
C15_Witness ==
    /\ Len(stack) = 2
    /\ stack[1].kind = "call"
    /\ stack[1].light = FALSE
    /\ stack[1].now # tick
    /\ Top.kind = "cb"
    /\ Top.op = "cbB"
    /\ Top.light = FALSE
    /\ Top.now = stack[1].now
    /\ reg = "cbB"

\* C16: with a callback that starts a wait only after inWait() answered
\* false, no wait is in progress above a callback that a wait invoked: such
\* a callback is the top of the stack and is never answered false, at most
\* one wait is in progress and waitDepth never exceeds 1.
C16_PoliteCallbackNoNesting ==
    /\ waitDepth <= 1
    /\ NWaits <= 1
    /\ \A i \in PumpedCbs : i = Len(stack) /\ stack[i].pc # "idle"

\* C17: waits nest last-in-first-out.  A wait that is not the top of the
\* stack stands after a pump call, with the callback it invoked right above
\* it; no step changes or removes any frame but the top one, so an outer
\* wait neither checks its condition nor returns while an inner wait is in
\* progress; and a wait that returns to a callback leaves waitDepth at the
\* value of the outer wait, before that wait's next check.
C17_NestedWaitsLifo ==
    /\ [](\A i \in Waits : i < Len(stack) =>
              /\ stack[i+1].kind = "cb"
              /\ stack[i].last = "pump"
              /\ stack[i].pc \in {"check", "eval"})
    /\ [][/\ Len(stack') >= Len(stack) - 1
          /\ \A i \in 1..(Len(stack) - 1) : stack'[i] = stack[i]
          /\ (ret'.op \in WaitOps /\ ret'.lvl > 1) =>
                /\ Len(stack') = ret'.lvl - 1
                /\ stack'[Len(stack')].kind = "cb"
                /\ stack'[Len(stack') - 1].kind = "wait"
                /\ waitDepth' = stack'[Len(stack') - 1].d0 + 1
         ]_vars

\* C17 witness: a delay_ms called by the callback of a wait_until has
\* returned to the callback; the wait_until still stands at its next
\* evaluation, and waitDepth is back to 1.
C17_Witness ==
    /\ Returned
    /\ ret.op = "delay_ms"
    /\ ret.lvl = 3
    /\ Len(stack) = 2
    /\ stack[1].op = "wait_until"
    /\ stack[1].pc = "eval"
    /\ stack[1].last = "pump"
    /\ Top.kind = "cb"
    /\ waitDepth = 1

\* A delay is about to check its timer for the first time.
FirstCheck ==
    /\ stack # <<>>
    /\ Top.kind = "wait"
    /\ Top.op \in DelayOps
    /\ Top.pc = "check"
    /\ Top.ne = 0

\* C18: a delay comes to its first timer check with no pump call made, and
\* when the timer is expired at that check the delay returns there, with
\* zero pump calls and waitDepth as before the call; the runtime delays of
\* duration 0 always return so.
C18_ExpiredDelayNoPump ==
    /\ [](\A i \in Waits :
              (stack[i].op \in DelayOps /\ stack[i].ne = 0) =>
                  /\ stack[i].pc = "check"
                  /\ stack[i].np = 0
                  /\ waitDepth = stack[i].d0 + 1)
    /\ [][(FirstCheck /\ isExpired(Top.t0, Top.dur, ClockOf(Top.op)) /\ stack' # stack) =>
              /\ stack' = Pop
              /\ ret'.op = Top.op
              /\ ret'.ne = 1
              /\ ret'.np = 0
              /\ waitDepth' = Top.d0
              /\ waitDepth' = waitDepth - 1]_vars
    /\ []((Returned /\ ret.op \in DelayOps /\ ret.dur = 0) =>
              ret.np = 0 /\ ret.ne = 1 /\ ret.d1 = ret.d0)

\* C18 witness: delay_cycles(0) has returned from its first check, with a
\* pump registered and never called.
C18_Witness ==
    /\ Returned
    /\ ret.op = "delay_cycles"
    /\ ret.form = "rt"
    /\ ret.dur = 0
    /\ ret.el = 0
    /\ ret.ne = 1
    /\ ret.np = 0
    /\ ret.d1 = 0
    /\ _pump # NoPump

\* C19: when the callback replaces or clears the registration during a
\* wait, each pump call of the wait invokes what the slot holds at that
\* call, the most recent registration, and nothing after a reset; and the
\* wait ends as it would with no pump: a delay with its timer expired, a
\* wait_until on a true evaluation or on its timeout, and no wait stays in
\* progress for ever.
C19_WaitFollowsSlot ==
    /\ [][(AtPump /\ Top.kind = "wait" /\ stack' # stack) =>
              IF reg = NoPump
              THEN Len(stack') = Len(stack)
              ELSE /\ Len(stack') = Len(stack) + 1
                   /\ stack'[Len(stack')].kind = "cb"
                   /\ stack'[Len(stack')].op = reg]_vars
    /\ [](Returned =>
              /\ ret.op \in DelayOps => isExpired(ret.t0, ret.dur, ClockOf(ret.op))
              /\ ret.op = "wait_until" =>
                    IF ret.res THEN cond
                    ELSE isExpired(ret.t0, ret.dur, ClockOf(ret.op)))
    /\ []<>(Waits = {})

\* The alive Scopes of guard g in the list q.
AliveIn(q, g) == Cardinality({i \in 1..Len(q) : q[i].g = g /\ q[i].alive})
\* A wait operation takes a step: it starts, or it is the running code.
WaitStep ==
    \/ /\ Len(stack') = Len(stack) + 1
       /\ stack'[Len(stack')].kind = "wait"
    \/ /\ stack # <<>>
       /\ Top.kind = "wait"
       /\ stack' # stack
\* The callback gets its answer from inWait().
InWaitStep ==
    /\ stack # <<>>
    /\ Top.kind = "cb"
    /\ Len(stack') = Len(stack)
    /\ stack'[Len(stack)].pc \in {"busy", "idle"}

\* C20: a step that constructs or destroys a Scope changes the depth of that
\* Scope's guard by one and neither another guard's depth, nor waitDepth,
\* nor the pump slot, and nothing else changes a depth; a step of a wait
\* operation changes neither the pump slot nor any guard; a pump call and an
\* inWait() call leave waitDepth as it is.
C20_StateIndependent ==
    [][/\ (scopes' # scopes \/ depth_' # depth_) =>
             /\ UNCHANGED <<waitDepth, _pump, reg>>
             /\ \A g \in Guards :
                   depth_'[g] - depth_[g] = AliveIn(scopes', g) - AliveIn(scopes, g)
             /\ Cardinality({g \in Guards : depth_'[g] # depth_[g]}) = 1
             /\ \E g \in Guards : depth_'[g] - depth_[g] \in {-1, 1}
       /\ WaitStep => UNCHANGED <<_pump, reg, depth_, scopes>>
       /\ (AtPump /\ stack' # stack) => UNCHANGED waitDepth
       /\ InWaitStep => UNCHANGED <<waitDepth, _pump, reg, depth_, scopes>>
      ]_vars

\* C20 witness: fB's Scope is constructed inside the pump callback of the
\* delay of fA's body: the depths of both guards are 1, a wait is in
\* progress and a pump is registered.
C20_Witness ==
    /\ Len(stack) = 4
    /\ stack[1].kind = "fn" /\ stack[1].op = "fA"
    /\ stack[2].kind = "wait"
    /\ stack[3].kind = "cb"
    /\ stack[4].kind = "fn" /\ stack[4].op = "fB" /\ stack[4].pc = "guard"
    /\ depth_ = [g \in Guards |-> 1]
    /\ waitDepth = 1
    /\ _pump # NoPump
====
